---- MODULE Spec2Model ----
(***************************************************************************)
(* expo-storage-universal: typed value wrappers over a string key-value    *)
(* backend.  The backend is the browser session store used by WebStorage;  *)
(* a wrapper is bound to one key at construction and exposes find,         *)
(* retrieve, save and remove at its value type.                            *)
(*                                                                         *)
(* Text is modelled as a sequence of one-character strings, so that the    *)
(* codecs (Number/toString, base64, JSON) are computed character by        *)
(* character.  Keys and error messages are TLA+ strings.                   *)
(***************************************************************************)
EXTENDS Integers, Sequences, FiniteSets, TLC

VARIABLES
    sessionStorage, \* the browser session store: storage key -> stored text or absent
    wrapper,        \* the wrapper under observation: its value type and its key
    last,           \* the call that completed last, with its outcome
    lastMut,        \* the last completed mutation of the wrapper's key
    prevMut,        \* the mutation of the wrapper's key completed before lastMut
    inFlight        \* the calls that are between their backend find and their backend save

vars == <<sessionStorage, wrapper, last, lastMut, prevMut, inFlight>>

----------------------------------------------------------------------------
(* Bounds of the model. *)

MaxStrLen == 2   \* longest text given to the string wrapper
MaxRawLen == 1   \* longest text over Chars that other code writes directly
MaxNum    == 11  \* integers given to the number and JSON wrappers: -MaxNum..MaxNum
MaxBytes  == 3   \* longest byte sequence given to the binary wrapper
MaxItems  == 2   \* longest JSON array given to the JSON wrapper

Keys     == {"k1", "k2"}
Chars    == {"0", "1", "a"}
ByteVals == {0, 255}
Kinds    == {"string", "number", "boolean", "date", "json", "binary"}

SeqsUpTo(S, n) == UNION {[1..m -> S] : m \in 0..n}

----------------------------------------------------------------------------
(* Optional stored text: what Storage.find resolves to. *)

None    == [found |-> FALSE, value |-> <<>>]
Some(s) == [found |-> TRUE, value |-> s]

(* Outcomes of a wrapper call. *)
Returned(v)     == [status |-> "value", value |-> v, message |-> ""]
Undefined(nov)  == [status |-> "undefined", value |-> nov, message |-> ""]
Void(nov)       == [status |-> "void", value |-> nov, message |-> ""]
Throws(nov, m)  == [status |-> "throws", value |-> nov, message |-> m]

(* One backend call, as the wrapper issued it. *)
Call(op, key) == [op |-> op, key |-> key]

(* What a wrapper method did: its outcome, the store it leaves, the backend calls. *)
Done(r, store, calls) == [result |-> r, store |-> store, calls |-> calls]

----------------------------------------------------------------------------
(* WebStorage over sessionStorage (regular partition). *)

REGULAR_PREFIX == "regular_"
SECURE_PREFIX  == "secure_"

StorageKeys == {REGULAR_PREFIX \o k : k \in Keys} \cup {SECURE_PREFIX \o k : k \in Keys}

\* sessionStorage.getItem(k) ?? undefined
getFromStorage(store, key) == store[REGULAR_PREFIX \o key]

\* a setItem that appends to the text already stored instead of replacing it
saveToStorageMerging(store, key, value) ==
    [store EXCEPT ![REGULAR_PREFIX \o key] =
        Some(IF @.found THEN @.value \o value ELSE value)]

\* sessionStorage.setItem(k, value)
saveToStorage(store, key, value) ==
    [store EXCEPT ![REGULAR_PREFIX \o key] = Some(value)]

\* sessionStorage.removeItem(k)
removeFromStorage(store, key) ==
    [store EXCEPT ![REGULAR_PREFIX \o key] = None]

----------------------------------------------------------------------------
(* Numbers: a finite integer, NaN, Infinity or -Infinity. *)

Finite(n)   == [cls |-> "finite", n |-> n]
NaN         == [cls |-> "NaN", n |-> 0]
Infinity    == [cls |-> "Infinity", n |-> 0]
NegInfinity == [cls |-> "-Infinity", n |-> 0]

DigitChars == <<"0", "1", "2", "3", "4", "5", "6", "7", "8", "9">>
DigitSet   == {DigitChars[i] : i \in 1..10}
DigitValue(c) == CHOOSE d \in 0..9 : DigitChars[d + 1] = c

strNaN      == <<"N", "a", "N">>
strInfinity == <<"I", "n", "f", "i", "n", "i", "t", "y">>

RECURSIVE NatToString(_)
NatToString(n) ==
    IF n < 10 THEN <<DigitChars[n + 1]>>
    ELSE NatToString(n \div 10) \o <<DigitChars[(n % 10) + 1]>>

\* Number.prototype.toString() (radix 10)
NumberToString(x) ==
    CASE x.cls = "NaN"       -> strNaN
      [] x.cls = "Infinity"  -> strInfinity
      [] x.cls = "-Infinity" -> <<"-">> \o strInfinity
      [] OTHER -> IF x.n < 0 THEN <<"-">> \o NatToString(-x.n) ELSE NatToString(x.n)

IsDigits(t) == Len(t) > 0 /\ \A i \in 1..Len(t) : t[i] \in DigitSet

RECURSIVE NatValue(_)
NatValue(t) ==
    IF t = <<>> THEN 0
    ELSE NatValue(SubSeq(t, 1, Len(t) - 1)) * 10 + DigitValue(t[Len(t)])

\* Number(s): the empty text is 0, a signed run of decimal digits is its value,
\* [+-]Infinity is infinite, and any other text over the model's characters is NaN.
StringToNumber(s) ==
    LET signed == Len(s) > 0 /\ s[1] \in {"-", "+"}
        body   == IF signed THEN Tail(s) ELSE s
        neg    == signed /\ s[1] = "-"
    IN  IF s = <<>> THEN Finite(0)
        ELSE IF body = strInfinity THEN (IF neg THEN NegInfinity ELSE Infinity)
        ELSE IF IsDigits(body)
             THEN Finite(IF neg THEN 0 - NatValue(body) ELSE NatValue(body))
        ELSE NaN

\* isNaN(x)
isNaN(x) == x.cls = "NaN"

\* !x for a number: 0 and NaN are falsy
NumberIsFalsy(x) == x.cls = "NaN" \/ (x.cls = "finite" /\ x.n = 0)

NotFoundMessage(key) == "No value found for key " \o key

----------------------------------------------------------------------------
(* StringValueStorageWrapper *)

NoString == <<>>

\* a find that tests the stored text with !value, as retrieve does
StringFindFalsy(key, store) ==
    LET value == getFromStorage(store, key)
    IN  Done(IF value.found /\ value.value # <<>> THEN Returned(value.value)
             ELSE Undefined(NoString),
             store, <<Call("find", key)>>)

StringFind(key, store) ==
    LET value == getFromStorage(store, key)
    IN  Done(IF value.found THEN Returned(value.value) ELSE Undefined(NoString),
             store, <<Call("find", key)>>)

\* if (!value) throw: undefined and the empty string are both falsy
StringRetrieve(key, store) ==
    LET f == StringFind(key, store)
    IN  IF f.result.status = "undefined" \/ f.result.value = <<>>
        THEN Done(Throws(NoString, NotFoundMessage(key)), f.store, f.calls)
        ELSE f

StringSave(key, store, value) ==
    Done(Void(NoString), saveToStorage(store, key, value), <<Call("save", key)>>)

StringRemove(key, store) ==
    Done(Void(NoString), removeFromStorage(store, key), <<Call("remove", key)>>)

----------------------------------------------------------------------------
(* NumberValueStorageWrapper *)

NoNumber == NaN

\* a find that rejects text that is not a number, as the date wrapper does
NumberFindStrict(key, store) ==
    LET storedValue == getFromStorage(store, key)
        n           == StringToNumber(storedValue.value)
    IN  Done(IF ~storedValue.found THEN Undefined(NoNumber)
             ELSE IF isNaN(n)
                  THEN Throws(NoNumber, "Invalid number value stored for key " \o key)
             ELSE Returned(n),
             store, <<Call("find", key)>>)

NumberFind(key, store) ==
    LET storedValue == getFromStorage(store, key)
    IN  Done(IF ~storedValue.found THEN Undefined(NoNumber)
             ELSE Returned(StringToNumber(storedValue.value)),
             store, <<Call("find", key)>>)

\* if (!value) throw: undefined, 0 and NaN are all falsy
NumberRetrieve(key, store) ==
    LET f == NumberFind(key, store)
    IN  IF f.result.status = "undefined" \/ NumberIsFalsy(f.result.value)
        THEN Done(Throws(NoNumber, NotFoundMessage(key)), f.store, f.calls)
        ELSE f

NumberSave(key, store, value) ==
    Done(Void(NoNumber), saveToStorage(store, key, NumberToString(value)),
         <<Call("save", key)>>)

\* a remove that rejects when the key holds nothing
NumberRemoveStrict(key, store) ==
    IF ~getFromStorage(store, key).found
    THEN Done(Throws(NoNumber, NotFoundMessage(key)), store, <<Call("find", key)>>)
    ELSE Done(Void(NoNumber), removeFromStorage(store, key), <<Call("remove", key)>>)

NumberRemove(key, store) ==
    Done(Void(NoNumber), removeFromStorage(store, key), <<Call("remove", key)>>)

----------------------------------------------------------------------------
(* BooleanValueStorageWrapper *)

NoBoolean == FALSE

\* a find without the undefined test: undefined === '1' is false
BooleanFindNoCheck(key, store) ==
    LET storedValue == getFromStorage(store, key)
    IN  Done(Returned(storedValue.found /\ storedValue.value = <<"1">>),
             store, <<Call("find", key)>>)

\* a find that takes every stored text but "0" for true
BooleanFindTruthy(key, store) ==
    LET storedValue == getFromStorage(store, key)
    IN  Done(IF ~storedValue.found THEN Undefined(NoBoolean)
             ELSE Returned(storedValue.value # <<"0">>),
             store, <<Call("find", key)>>)

BooleanFind(key, store) ==
    LET storedValue == getFromStorage(store, key)
    IN  Done(IF ~storedValue.found THEN Undefined(NoBoolean)
             ELSE Returned(storedValue.value = <<"1">>),
             store, <<Call("find", key)>>)

\* a retrieve that tests the value with !value, as the number wrapper does
BooleanRetrieveFalsy(key, store) ==
    LET f == BooleanFind(key, store)
    IN  IF f.result.status = "undefined" \/ ~f.result.value
        THEN Done(Throws(NoBoolean, NotFoundMessage(key)), f.store, f.calls)
        ELSE f

BooleanRetrieve(key, store) ==
    LET f == BooleanFind(key, store)
    IN  IF f.result.status = "undefined"
        THEN Done(Throws(NoBoolean, NotFoundMessage(key)), f.store, f.calls)
        ELSE f

BooleanSave(key, store, value) ==
    Done(Void(NoBoolean), saveToStorage(store, key, IF value THEN <<"1">> ELSE <<"0">>),
         <<Call("save", key)>>)

BooleanRemove(key, store) ==
    Done(Void(NoBoolean), removeFromStorage(store, key), <<Call("remove", key)>>)

----------------------------------------------------------------------------
(* DateValueStorageWrapper.  A value is a Date (its time value is a finite *)
(* integer, or NaN for an Invalid Date) or something that is not a Date.   *)

DateOfTime(t) == [isDate |-> TRUE, time |-> t]
InvalidDate   == DateOfTime(NaN)
NotADate      == [isDate |-> FALSE, time |-> NaN]
NoDate        == InvalidDate

\* new Date(timestamp): an infinite time value gives an Invalid Date
NewDate(timestamp) ==
    IF timestamp.cls = "finite" THEN DateOfTime(timestamp) ELSE InvalidDate

DateFind(key, store) ==
    LET storedValue == getFromStorage(store, key)
        timestamp   == StringToNumber(storedValue.value)
    IN  Done(IF ~storedValue.found THEN Undefined(NoDate)
             ELSE IF isNaN(timestamp)
                  THEN Throws(NoDate, "Invalid timestamp value stored for key " \o key)
             ELSE Returned(NewDate(timestamp)),
             store, <<Call("find", key)>>)

\* retrieve as an alias of find, which resolves to undefined for a missing key
DateRetrieveAlias(key, store) == DateFind(key, store)

DateRetrieve(key, store) ==
    LET f == DateFind(key, store)
    IN  IF f.result.status = "undefined"
        THEN Done(Throws(NoDate, NotFoundMessage(key)), f.store, f.calls)
        ELSE f

DateSave(key, store, value) ==
    IF ~value.isDate
    THEN Done(Throws(NoDate, "Invalid Date value provided for key " \o key), store, <<>>)
    ELSE Done(Void(NoDate), saveToStorage(store, key, NumberToString(value.time)),
              <<Call("save", key)>>)

DateRemove(key, store) ==
    Done(Void(NoDate), removeFromStorage(store, key), <<Call("remove", key)>>)

----------------------------------------------------------------------------
(* JSON text.  The JSON values of the model are integers and arrays of     *)
(* JSON values; JCircular stands for a value that refers to itself.        *)

JNum(n)   == [t |-> "num", n |-> n, items |-> <<>>]
JArr(xs)  == [t |-> "arr", n |-> 0, items |-> xs]
JCircular == [t |-> "circular", n |-> 0, items |-> <<>>]
NoJson    == JNum(0)

RECURSIVE JSONstringify(_), JoinItems(_)

\* JSON.stringify(value) of a serializable value
JSONstringify(v) ==
    IF v.t = "num" THEN NumberToString(Finite(v.n))
    ELSE <<"[">> \o JoinItems(v.items) \o <<"]">>

JoinItems(xs) ==
    IF xs = <<>> THEN <<>>
    ELSE IF Len(xs) = 1 THEN JSONstringify(xs[1])
    ELSE JSONstringify(xs[1]) \o <<",">> \o JoinItems(Tail(xs))

ParseFail == [ok |-> FALSE, value |-> NoJson, next |-> 0]
Parsed(v, next) == [ok |-> TRUE, value |-> v, next |-> next]

RECURSIVE DigitsEnd(_, _)
\* the first position at or after i that holds no digit
DigitsEnd(s, i) ==
    IF i <= Len(s) /\ s[i] \in DigitSet THEN DigitsEnd(s, i + 1) ELSE i

\* a JSON number: -?(0|[1-9][0-9]*)
ParseNumber(s, i) ==
    LET neg  == s[i] = "-"
        j    == IF neg THEN i + 1 ELSE i
        stop == IF j <= Len(s) /\ s[j] = "0" THEN j + 1 ELSE DigitsEnd(s, j)
        n    == NatValue(SubSeq(s, j, stop - 1))
    IN  IF stop = j THEN ParseFail
        ELSE Parsed(JNum(IF neg THEN 0 - n ELSE n), stop)

RECURSIVE ParseValue(_, _), ParseElements(_, _, _)

ParseValue(s, i) ==
    IF i > Len(s) THEN ParseFail
    ELSE IF s[i] = "["
         THEN IF i + 1 <= Len(s) /\ s[i + 1] = "]"
              THEN Parsed(JArr(<<>>), i + 2)
              ELSE ParseElements(s, i + 1, <<>>)
    ELSE IF s[i] = "-" \/ s[i] \in DigitSet THEN ParseNumber(s, i)
    ELSE ParseFail

ParseElements(s, i, acc) ==
    LET v == ParseValue(s, i)
    IN  IF ~v.ok \/ v.next > Len(s) THEN ParseFail
        ELSE IF s[v.next] = "," THEN ParseElements(s, v.next + 1, Append(acc, v.value))
        ELSE IF s[v.next] = "]" THEN Parsed(JArr(Append(acc, v.value)), v.next + 1)
        ELSE ParseFail

\* JSON.parse(text): the whole text must be one value
JSONparse(s) ==
    LET r == ParseValue(s, 1)
    IN  IF r.ok /\ r.next = Len(s) + 1 THEN r ELSE ParseFail

----------------------------------------------------------------------------
(* JsonValueStorageWrapper *)

\* a find without the undefined test: JSON.parse(undefined) throws
JsonFindNoCheck(key, store) ==
    LET storedValue == getFromStorage(store, key)
        parsed      == JSONparse(storedValue.value)
    IN  Done(IF ~storedValue.found \/ ~parsed.ok
             THEN Throws(NoJson, "Failed to parse JSON for key " \o key)
             ELSE Returned(parsed.value),
             store, <<Call("find", key)>>)

\* a find that removes the entry it cannot parse
JsonFindPurging(key, store) ==
    LET storedValue == getFromStorage(store, key)
        parsed      == JSONparse(storedValue.value)
    IN  IF ~storedValue.found THEN Done(Undefined(NoJson), store, <<Call("find", key)>>)
        ELSE IF ~parsed.ok
             THEN Done(Throws(NoJson, "Failed to parse JSON for key " \o key),
                       removeFromStorage(store, key),
                       <<Call("find", key), Call("remove", key)>>)
        ELSE Done(Returned(parsed.value), store, <<Call("find", key)>>)

JsonFind(key, store) ==
    LET storedValue == getFromStorage(store, key)
        parsed      == JSONparse(storedValue.value)
    IN  Done(IF ~storedValue.found THEN Undefined(NoJson)
             ELSE IF ~parsed.ok
                  THEN Throws(NoJson, "Failed to parse JSON for key " \o key)
             ELSE Returned(parsed.value),
             store, <<Call("find", key)>>)

JsonRetrieve(key, store) ==
    LET f == JsonFind(key, store)
    IN  IF f.result.status = "undefined"
        THEN Done(Throws(NoJson, NotFoundMessage(key)), f.store, f.calls)
        ELSE f

\* a save that lets the error of JSON.stringify through as it is
JsonSaveUnwrapped(key, store, value) ==
    IF value.t = "circular"
    THEN Done(Throws(NoJson, "Converting circular structure to JSON"), store, <<>>)
    ELSE Done(Void(NoJson), saveToStorage(store, key, JSONstringify(value)),
              <<Call("save", key)>>)

JsonSave(key, store, value) ==
    IF value.t = "circular"
    THEN Done(Throws(NoJson, "Failed to stringify JSON for key " \o key), store, <<>>)
    ELSE Done(Void(NoJson), saveToStorage(store, key, JSONstringify(value)),
              <<Call("save", key)>>)

JsonRemove(key, store) ==
    Done(Void(NoJson), removeFromStorage(store, key), <<Call("remove", key)>>)

----------------------------------------------------------------------------
(* base64-js: fromByteArray and toByteArray *)

lookup ==
    <<
    "A", "B", "C", "D", "E", "F", "G", "H", "I", "J", "K", "L", "M", "N", "O", "P",
    "Q", "R", "S", "T", "U", "V", "W", "X", "Y", "Z", "a", "b", "c", "d", "e", "f",
    "g", "h", "i", "j", "k", "l", "m", "n", "o", "p", "q", "r", "s", "t", "u", "v",
    "w", "x", "y", "z", "0", "1", "2", "3", "4", "5", "6", "7", "8", "9", "+", "/"
    >>

\* revLookup[code]; an unknown character is undefined, which the shifts read as 0
revLookup(c) ==
    IF \E i \in 1..64 : lookup[i] = c THEN (CHOOSE i \in 1..64 : lookup[i] = c) - 1
    ELSE IF c = "-" THEN 62
    ELSE IF c = "_" THEN 63
    ELSE 0

\* lookup[num >> 18 & 0x3F] + lookup[num >> 12 & 0x3F] + lookup[num >> 6 & 0x3F] + lookup[num & 0x3F]
tripletToBase64(num) ==
    << lookup[((num \div 262144) % 64) + 1], lookup[((num \div 4096) % 64) + 1],
       lookup[((num \div 64) % 64) + 1], lookup[(num % 64) + 1] >>

RECURSIVE encodeChunk(_, _, _)
\* the full three-byte groups of uint8[start .. end) (0-based)
encodeChunk(uint8, start, end) ==
    IF start >= end THEN <<>>
    ELSE tripletToBase64(uint8[start + 1] * 65536 + uint8[start + 2] * 256 + uint8[start + 3])
         \o encodeChunk(uint8, start + 3, end)

fromByteArray(uint8) ==
    LET len        == Len(uint8)
        extraBytes == len % 3
        one        == uint8[len]
        two        == uint8[len - 1] * 256 + uint8[len]
    IN  encodeChunk(uint8, 0, len - extraBytes) \o
        ( CASE extraBytes = 1 ->
                 << lookup[(one \div 4) + 1], lookup[((one * 16) % 64) + 1], "=", "=" >>
            [] extraBytes = 2 ->
                 << lookup[(two \div 1024) + 1], lookup[((two \div 16) % 64) + 1],
                    lookup[((two * 4) % 64) + 1], "=" >>
            [] OTHER -> <<>> )

\* revLookup[b64.charCodeAt(i)], i 0-based; past the end charCodeAt is NaN
rev(b64, i) == IF i + 1 <= Len(b64) THEN revLookup(b64[i + 1]) ELSE 0

RECURSIVE decodeGroups(_, _, _)
\* the loop over the complete four-character groups before position len
decodeGroups(b64, i, len) ==
    IF i >= len THEN <<>>
    ELSE LET tmp == rev(b64, i) * 262144 + rev(b64, i + 1) * 4096
                    + rev(b64, i + 2) * 64 + rev(b64, i + 3)
         IN  << (tmp \div 65536) % 256, (tmp \div 256) % 256, tmp % 256 >>
             \o decodeGroups(b64, i + 4, len)

BytesFail == [ok |-> FALSE, bytes |-> <<>>, message |-> "Invalid string. Length must be a multiple of 4"]

toByteArray(b64) ==
    LET len      == Len(b64)
        eqs      == {i \in 1..len : b64[i] = "="}
        validLen == IF eqs = {} THEN len
                    ELSE (CHOOSE i \in eqs : \A j \in eqs : i <= j) - 1
        placeHoldersLen == IF validLen = len THEN 0 ELSE 4 - (validLen % 4)
        byteLength == (((validLen + placeHoldersLen) * 3) \div 4) - placeHoldersLen
        loopLen  == IF placeHoldersLen > 0 THEN validLen - 4 ELSE validLen
        groups   == decodeGroups(b64, 0, loopLen)
        i        == (Len(groups) \div 3) * 4
        tmp2     == rev(b64, i) * 4 + (rev(b64, i + 1) \div 16)
        tmp1     == rev(b64, i) * 1024 + rev(b64, i + 1) * 16 + (rev(b64, i + 2) \div 4)
        written  == groups \o
                    ( CASE placeHoldersLen = 2 -> << tmp2 % 256 >>
                        [] placeHoldersLen = 1 -> << (tmp1 \div 256) % 256, tmp1 % 256 >>
                        [] OTHER -> <<>> )
    IN  IF len % 4 > 0 THEN BytesFail
        ELSE IF byteLength < 0
             THEN [ok |-> FALSE, bytes |-> <<>>, message |-> "Invalid typed array length"]
        ELSE [ok |-> TRUE,
              bytes |-> [k \in 1..byteLength |-> IF k <= Len(written) THEN written[k] ELSE 0],
              message |-> ""]

----------------------------------------------------------------------------
(* Uint8ArrayValueStorageWrapper *)

NoBytes == <<>>

\* if (!storedValue) return undefined: undefined and the empty text are both falsy
Uint8ArrayFind(key, store) ==
    LET storedValue == getFromStorage(store, key)
        decoded     == toByteArray(storedValue.value)
    IN  Done(IF ~storedValue.found \/ storedValue.value = <<>> THEN Undefined(NoBytes)
             ELSE IF ~decoded.ok THEN Throws(NoBytes, decoded.message)
             ELSE Returned(decoded.bytes),
             store, <<Call("find", key)>>)

\* if (!value) throw: a Uint8Array, even an empty one, is truthy
Uint8ArrayRetrieve(key, store) ==
    LET f == Uint8ArrayFind(key, store)
    IN  IF f.result.status = "undefined"
        THEN Done(Throws(NoBytes, NotFoundMessage(key)), f.store, f.calls)
        ELSE f

Uint8ArraySave(key, store, value) ==
    Done(Void(NoBytes), saveToStorage(store, key, fromByteArray(value)),
         <<Call("save", key)>>)

Uint8ArrayRemove(key, store) ==
    Done(Void(NoBytes), removeFromStorage(store, key), <<Call("remove", key)>>)

----------------------------------------------------------------------------
(* The wrapper under observation and the calls made on it. *)

NoValue(kind) ==
    CASE kind = "string"  -> NoString
      [] kind = "number"  -> NoNumber
      [] kind = "boolean" -> NoBoolean
      [] kind = "date"    -> NoDate
      [] kind = "json"    -> NoJson
      [] OTHER            -> NoBytes

Numbers    == {Finite(n) : n \in (0 - MaxNum)..MaxNum}
Times      == {Finite(0 - 1), Finite(0), Finite(MaxNum)}
JsonItems  == {JNum(0), JNum(1), JNum(0 - MaxNum)}
RawTexts   == SeqsUpTo(Chars, MaxRawLen) \cup {strNaN, strInfinity}

\* the values a caller passes to save
InputsOf(kind) ==
    CASE kind = "string"  -> SeqsUpTo(Chars, MaxStrLen)
      [] kind = "number"  -> Numbers \cup {NaN, Infinity, NegInfinity}
      [] kind = "boolean" -> BOOLEAN
      [] kind = "date"    -> {DateOfTime(t) : t \in Times} \cup {InvalidDate, NotADate}
      [] kind = "json"    -> JsonItems
                             \cup {JArr(xs) : xs \in SeqsUpTo(JsonItems, MaxItems)}
                             \cup {JArr(<<JArr(<<JNum(1)>>)>>), JCircular}
      [] OTHER            -> SeqsUpTo(ByteVals, MaxBytes)

WrapperFind(kind, key, store) ==
    CASE kind = "string"  -> StringFind(key, store)
      [] kind = "number"  -> NumberFind(key, store)
      [] kind = "boolean" -> BooleanFind(key, store)
      [] kind = "date"    -> DateFind(key, store)
      [] kind = "json"    -> JsonFind(key, store)
      [] OTHER            -> Uint8ArrayFind(key, store)

WrapperRetrieve(kind, key, store) ==
    CASE kind = "string"  -> StringRetrieve(key, store)
      [] kind = "number"  -> NumberRetrieve(key, store)
      [] kind = "boolean" -> BooleanRetrieve(key, store)
      [] kind = "date"    -> DateRetrieve(key, store)
      [] kind = "json"    -> JsonRetrieve(key, store)
      [] OTHER            -> Uint8ArrayRetrieve(key, store)

WrapperSave(kind, key, store, value) ==
    CASE kind = "string"  -> StringSave(key, store, value)
      [] kind = "number"  -> NumberSave(key, store, value)
      [] kind = "boolean" -> BooleanSave(key, store, value)
      [] kind = "date"    -> DateSave(key, store, value)
      [] kind = "json"    -> JsonSave(key, store, value)
      [] OTHER            -> Uint8ArraySave(key, store, value)

WrapperRemove(kind, key, store) ==
    CASE kind = "string"  -> StringRemove(key, store)
      [] kind = "number"  -> NumberRemove(key, store)
      [] kind = "boolean" -> BooleanRemove(key, store)
      [] kind = "date"    -> DateRemove(key, store)
      [] kind = "json"    -> JsonRemove(key, store)
      [] OTHER            -> Uint8ArrayRemove(key, store)

\* what the session store holds for a key of the regular partition
Held(key) == sessionStorage[REGULAR_PREFIX \o key]

\* the record of a completed call
Completed(op, key, arg, d) ==
    [op |-> op, key |-> key, arg |-> arg, result |-> d.result,
     present |-> key = wrapper.key /\ Held(key).found, calls |-> d.calls]

Mutation(op, arg) == [op |-> op, arg |-> arg]

\* the mutation before the last one: its kind, and whether the last one is a save
\* of a value different from the one it saved
Earlier(mut, arg) ==
    [op |-> mut.op, differs |-> mut.op = "save" /\ mut.arg # arg]

IssuedMutation(d) == \E i \in 1..Len(d.calls) : d.calls[i].op \in {"save", "remove"}

Init ==
    /\ sessionStorage = [k \in StorageKeys |-> None]
    /\ wrapper \in {[kind |-> kind, key |-> "k1"] : kind \in Kinds}
    /\ last = [op |-> "none", key |-> wrapper.key, arg |-> NoValue(wrapper.kind),
               result |-> Void(NoValue(wrapper.kind)), present |-> FALSE, calls |-> <<>>]
    /\ lastMut = Mutation("none", NoValue(wrapper.kind))
    /\ prevMut = [op |-> "none", differs |-> FALSE]
    /\ inFlight = <<>>

\* await wrapper.find()
Find ==
    LET d == WrapperFind(wrapper.kind, wrapper.key, sessionStorage)
    IN  /\ sessionStorage' = d.store
        /\ last' = Completed("find", wrapper.key, NoValue(wrapper.kind), d)
        /\ UNCHANGED <<wrapper, lastMut, prevMut, inFlight>>

\* await wrapper.retrieve()
Retrieve ==
    LET d == WrapperRetrieve(wrapper.kind, wrapper.key, sessionStorage)
    IN  /\ sessionStorage' = d.store
        /\ last' = Completed("retrieve", wrapper.key, NoValue(wrapper.kind), d)
        /\ UNCHANGED <<wrapper, lastMut, prevMut, inFlight>>

\* await wrapper.save(value)
Save(value) ==
    LET d == WrapperSave(wrapper.kind, wrapper.key, sessionStorage, value)
    IN  /\ sessionStorage' = d.store
        /\ last' = Completed("save", wrapper.key, value, d)
        /\ IF IssuedMutation(d)
           THEN /\ lastMut' = Mutation("save", value)
                /\ prevMut' = Earlier(lastMut, value)
           ELSE UNCHANGED <<lastMut, prevMut>>
        /\ UNCHANGED <<wrapper, inFlight>>

\* await wrapper.remove()
Remove ==
    LET d == WrapperRemove(wrapper.kind, wrapper.key, sessionStorage)
    IN  /\ sessionStorage' = d.store
        /\ last' = Completed("remove", wrapper.key, NoValue(wrapper.kind), d)
        /\ lastMut' = Mutation("remove", NoValue(wrapper.kind))
        /\ prevMut' = Earlier(lastMut, NoValue(wrapper.kind))
        /\ UNCHANGED <<wrapper, inFlight>>

\* other code calls storage.save(key, text) directly
StorageSave(key, text) ==
    LET d == Done(Void(NoValue(wrapper.kind)), saveToStorage(sessionStorage, key, text),
                  <<Call("save", key)>>)
    IN  /\ sessionStorage' = d.store
        /\ last' = Completed("storage.save", key, NoValue(wrapper.kind), d)
        /\ IF key = wrapper.key
           THEN /\ lastMut' = Mutation("storage.save", NoValue(wrapper.kind))
                /\ prevMut' = Earlier(lastMut, NoValue(wrapper.kind))
           ELSE UNCHANGED <<lastMut, prevMut>>
        /\ UNCHANGED <<wrapper, inFlight>>

\* other code calls storage.remove(key) directly
StorageRemove(key) ==
    LET d == Done(Void(NoValue(wrapper.kind)), removeFromStorage(sessionStorage, key),
                  <<Call("remove", key)>>)
    IN  /\ sessionStorage' = d.store
        /\ last' = Completed("storage.remove", key, NoValue(wrapper.kind), d)
        /\ IF key = wrapper.key
           THEN /\ lastMut' = Mutation("storage.remove", NoValue(wrapper.kind))
                /\ prevMut' = Earlier(lastMut, NoValue(wrapper.kind))
           ELSE UNCHANGED <<lastMut, prevMut>>
        /\ UNCHANGED <<wrapper, inFlight>>

Next ==
    \/ Find
    \/ Retrieve
    \/ \E value \in InputsOf(wrapper.kind) : Save(value)
    \/ Remove
    \/ \E key \in Keys, text \in RawTexts : StorageSave(key, text)
    \/ \E key \in Keys : StorageRemove(key)

Spec == Init /\ [][Next]_vars

----------------------------------------------------------------------------
(* A backend whose calls reject.  Every method of the backends is an async  *)
(* function, so a failure of the platform store reaches the wrapper as the  *)
(* rejection of the promise the backend call returned; the store keeps what *)
(* it held.                                                                  *)

StorageError == "Storage error"

\* the name under which a call that met a rejecting backend is recorded
Rejected(op) == op \o " (backend rejects)"

\* find of every wrapper awaits storage.find first, outside any try block
WrapperFindRejected(kind, key, store, error) ==
    Done(Throws(NoValue(kind), error), store, <<Call("find", key)>>)

\* retrieve awaits this.find(), outside any try block
WrapperRetrieveRejected(kind, key, store, error) ==
    WrapperFindRejected(kind, key, store, error)

\* the instanceof test comes before the backend call
DateSaveRejected(key, store, value, error) ==
    IF ~value.isDate THEN DateSave(key, store, value)
    ELSE Done(Throws(NoDate, error), store, <<Call("save", key)>>)

\* a save that awaits the backend inside its try block, so that the catch wraps
\* the backend's error
JsonSaveRejectedAwaited(key, store, value, error) ==
    IF value.t = "circular" THEN JsonSave(key, store, value)
    ELSE Done(Throws(NoJson, "Failed to stringify JSON for key " \o key),
              store, <<Call("save", key)>>)

\* try { ...; return this.storage.save(...) } catch: the promise leaves the try
\* block without being awaited, so the catch sees only what JSON.stringify throws
JsonSaveRejected(key, store, value, error) ==
    IF value.t = "circular" THEN JsonSave(key, store, value)
    ELSE Done(Throws(NoJson, error), store, <<Call("save", key)>>)

WrapperSaveRejected(kind, key, store, value, error) ==
    CASE kind = "date" -> DateSaveRejected(key, store, value, error)
      [] kind = "json" -> JsonSaveRejected(key, store, value, error)
      [] OTHER         -> Done(Throws(NoValue(kind), error), store, <<Call("save", key)>>)

WrapperRemoveRejected(kind, key, store, error) ==
    Done(Throws(NoValue(kind), error), store, <<Call("remove", key)>>)

\* await wrapper.find() while storage.find rejects
FindRejected ==
    LET d == WrapperFindRejected(wrapper.kind, wrapper.key, sessionStorage, StorageError)
    IN  /\ sessionStorage' = d.store
        /\ last' = Completed(Rejected("find"), wrapper.key, NoValue(wrapper.kind), d)
        /\ UNCHANGED <<wrapper, lastMut, prevMut, inFlight>>

\* await wrapper.retrieve() while storage.find rejects
RetrieveRejected ==
    LET d == WrapperRetrieveRejected(wrapper.kind, wrapper.key, sessionStorage, StorageError)
    IN  /\ sessionStorage' = d.store
        /\ last' = Completed(Rejected("retrieve"), wrapper.key, NoValue(wrapper.kind), d)
        /\ UNCHANGED <<wrapper, lastMut, prevMut, inFlight>>

\* await wrapper.save(value) while storage.save rejects; a save that throws before
\* it reaches the backend is the case of Save
SaveRejected(value) ==
    LET d == WrapperSaveRejected(wrapper.kind, wrapper.key, sessionStorage, value,
                                 StorageError)
    IN  /\ d.calls # <<>>
        /\ sessionStorage' = d.store
        /\ last' = Completed(Rejected("save"), wrapper.key, value, d)
        /\ UNCHANGED <<wrapper, lastMut, prevMut, inFlight>>

\* await wrapper.remove() while storage.remove rejects
RemoveRejected ==
    LET d == WrapperRemoveRejected(wrapper.kind, wrapper.key, sessionStorage, StorageError)
    IN  /\ sessionStorage' = d.store
        /\ last' = Completed(Rejected("remove"), wrapper.key, NoValue(wrapper.kind), d)
        /\ UNCHANGED <<wrapper, lastMut, prevMut, inFlight>>

FailingNext ==
    \/ Find
    \/ Retrieve
    \/ \E value \in InputsOf(wrapper.kind) : Save(value)
    \/ Remove
    \/ FindRejected
    \/ RetrieveRejected
    \/ \E value \in InputsOf(wrapper.kind) : SaveRejected(value)
    \/ RemoveRejected

FailingSpec == Init /\ [][FailingNext]_vars

----------------------------------------------------------------------------
(* JsonValuesStorageWrapper: a JsonValueStorageWrapper of an array of items, *)
(* with a comparator given at construction.  An item of the model is the     *)
(* JSON array [id, payload]; the constructor comparator compares the ids, as *)
(* compareById does.                                                         *)

Item(id, payload) == JArr(<<JNum(id), JNum(payload)>>)
Items     == {Item(1, 0), Item(1, 1), Item(2, 0)}
ItemLists == SeqsUpTo(Items, MaxItems)

\* (a, b) => a.id - b.id
compareById(a, b) == a.items[1].n - b.items[1].n

\* (a, b) => a.payload - b.payload
compareByPayload(a, b) == a.items[2].n - b.items[2].n

\* the comparator the wrapper was constructed with
compareItem(a, b) == compareById(a, b)

Comparators == {"compareById", "compareByPayload"}
Compare(cmp, a, b) ==
    IF cmp = "compareByPayload" THEN compareByPayload(a, b) ELSE compareById(a, b)

\* filter functions, each given by the list of the items it accepts: none, all,
\* those of id 1, those of payload 1
Filters ==
    { <<>>,
      <<Item(1, 0), Item(1, 1), Item(2, 0)>>,
      <<Item(1, 0), Item(1, 1)>>,
      <<Item(1, 1)>> }

\* filterItem(item)
Accepts(filterItem, item) == \E k \in 1..Len(filterItem) : filterItem[k] = item

ItemNotFound ==
    "Item not found in storage. The item may have been deleted or the comparison function may not match any existing items."

\* what calling an array method on a value that is no array throws
TypeError == "TypeError"

\* (await this.find()) ?? []
OrEmpty(f) == IF f.result.status = "undefined" THEN JArr(<<>>) ELSE f.result.value

\* the find of a collection method did not deliver an array (or nothing): the
\* method rejects with find's error, or with the TypeError of the array method
FindFailed(f) == f.result.status = "throws" \/ OrEmpty(f).t # "arr"

Failed(f) ==
    IF f.result.status = "throws" THEN f
    ELSE Done(Throws(NoJson, TypeError), f.store, f.calls)

\* await this.save(items), after the find f
ThenSave(key, f, items) ==
    LET saved == JsonSave(key, f.store, JArr(items))
    IN  Done(saved.result, saved.store, f.calls \o saved.calls)

\* items.findIndex((i) => this.compareItem(i, item) === 0); 0 stands for -1
findIndex(items, item) ==
    LET hits == {i \in 1..Len(items) : compareItem(items[i], item) = 0}
    IN  IF hits = {} THEN 0 ELSE CHOOSE i \in hits : \A j \in hits : i <= j

\* items.splice(index, 1)
splice(items, index) ==
    SubSeq(items, 1, index - 1) \o SubSeq(items, index + 1, Len(items))

\* an addItem that puts the item in front of the stored ones
addItemFront(key, store, item) ==
    LET f == JsonFind(key, store)
    IN  IF FindFailed(f) THEN Failed(f)
        ELSE ThenSave(key, f, <<item>> \o OrEmpty(f).items)

addItem(key, store, item) ==
    LET f == JsonFind(key, store)
    IN  IF FindFailed(f) THEN Failed(f)
        ELSE ThenSave(key, f, Append(OrEmpty(f).items, item))

\* an addItems that skips the new items that compare equal to a stored element
addItemsUnique(key, store, items) ==
    LET f           == JsonFind(key, store)
        currentItems == OrEmpty(f).items
        IsNew(i)    == findIndex(currentItems, i) = 0
    IN  IF FindFailed(f) THEN Failed(f)
        ELSE ThenSave(key, f, currentItems \o SelectSeq(items, IsNew))

addItems(key, store, items) ==
    LET f == JsonFind(key, store)
    IN  IF FindFailed(f) THEN Failed(f)
        ELSE ThenSave(key, f, OrEmpty(f).items \o items)

\* an update that saves the array before it reports that nothing matched
updateItemSavingFirst(key, store, item) ==
    LET f     == JsonFind(key, store)
        items == OrEmpty(f).items
        index == findIndex(items, item)
        saved == ThenSave(key, f, items)
    IN  IF FindFailed(f) THEN Failed(f)
        ELSE IF index # 0 THEN ThenSave(key, f, [items EXCEPT ![index] = item])
        ELSE Done(Throws(NoJson, ItemNotFound), saved.store, saved.calls)

\* an update that appends the item when no stored element compares equal
updateItemOrAdd(key, store, item) ==
    LET f     == JsonFind(key, store)
        items == OrEmpty(f).items
        index == findIndex(items, item)
    IN  IF FindFailed(f) THEN Failed(f)
        ELSE IF index # 0 THEN ThenSave(key, f, [items EXCEPT ![index] = item])
        ELSE ThenSave(key, f, Append(items, item))

updateItem(key, store, item) ==
    LET f     == JsonFind(key, store)
        items == OrEmpty(f).items
        index == findIndex(items, item)
    IN  IF FindFailed(f) THEN Failed(f)
        ELSE IF index # 0 THEN ThenSave(key, f, [items EXCEPT ![index] = item])
        ELSE Done(Throws(NoJson, ItemNotFound), f.store, f.calls)

\* an updateItems that also appends the input elements that matched nothing
updateItemsUpserting(key, store, items) ==
    LET f            == JsonFind(key, store)
        currentItems == OrEmpty(f).items
        IsNew(i)     == findIndex(currentItems, i) = 0
        updated      ==
            [outerIndex \in 1..Len(currentItems) |->
                LET innerIndex == findIndex(items, currentItems[outerIndex])
                IN  IF innerIndex # 0 THEN items[innerIndex]
                    ELSE currentItems[outerIndex]]
    IN  IF FindFailed(f) THEN Failed(f)
        ELSE ThenSave(key, f, updated \o SelectSeq(items, IsNew))

\* currentItems.forEach: each stored element is replaced by the first input element
\* that compares equal to it
updateItems(key, store, items) ==
    LET f            == JsonFind(key, store)
        currentItems == OrEmpty(f).items
        updated      ==
            [outerIndex \in 1..Len(currentItems) |->
                LET innerIndex == findIndex(items, currentItems[outerIndex])
                IN  IF innerIndex # 0 THEN items[innerIndex]
                    ELSE currentItems[outerIndex]]
    IN  IF FindFailed(f) THEN Failed(f)
        ELSE ThenSave(key, f, updated)

\* a removeItem that removes every element that compares equal to the item
removeItemEvery(key, store, item) ==
    LET f       == JsonFind(key, store)
        Other(i) == compareItem(i, item) # 0
    IN  IF FindFailed(f) THEN Failed(f)
        ELSE ThenSave(key, f, SelectSeq(OrEmpty(f).items, Other))

\* a removeItem that removes the key when no element is left
removeItemDeletingEmpty(key, store, item) ==
    LET f     == JsonFind(key, store)
        items == OrEmpty(f).items
        index == findIndex(items, item)
        left  == IF index # 0 THEN splice(items, index) ELSE items
    IN  IF FindFailed(f) THEN Failed(f)
        ELSE IF left = <<>>
             THEN Done(Void(NoJson), removeFromStorage(f.store, key),
                       f.calls \o <<Call("remove", key)>>)
        ELSE ThenSave(key, f, left)

\* a removeItem that skips the save when nothing matched
removeItemLazy(key, store, item) ==
    LET f     == JsonFind(key, store)
        items == OrEmpty(f).items
        index == findIndex(items, item)
    IN  IF FindFailed(f) THEN Failed(f)
        ELSE IF index = 0 THEN Done(Void(NoJson), f.store, f.calls)
        ELSE ThenSave(key, f, splice(items, index))

removeItem(key, store, item) ==
    LET f     == JsonFind(key, store)
        items == OrEmpty(f).items
        index == findIndex(items, item)
    IN  IF FindFailed(f) THEN Failed(f)
        ELSE ThenSave(key, f, IF index # 0 THEN splice(items, index) ELSE items)

RECURSIVE spliceEach(_, _)
\* items.forEach: each input item removes the first element of the working array
\* that compares equal to it
spliceEach(currentItems, items) ==
    IF items = <<>> THEN currentItems
    ELSE LET index == findIndex(currentItems, Head(items))
         IN  spliceEach(IF index # 0 THEN splice(currentItems, index) ELSE currentItems,
                        Tail(items))

\* a removeItems that looks every input item up in the array as it was read
removeItemsSnapshot(key, store, items) ==
    LET f            == JsonFind(key, store)
        currentItems == OrEmpty(f).items
        Hit(i)       == \E k \in 1..Len(items) : findIndex(currentItems, items[k]) = i
        kept         == {i \in 1..Len(currentItems) : ~Hit(i)}
        indexed      == [i \in 1..Len(currentItems) |-> <<i, currentItems[i]>>]
        Kept(e)      == e[1] \in kept
        left         == SelectSeq(indexed, Kept)
    IN  IF FindFailed(f) THEN Failed(f)
        ELSE ThenSave(key, f, [i \in 1..Len(left) |-> left[i][2]])

removeItems(key, store, items) ==
    LET f == JsonFind(key, store)
    IN  IF FindFailed(f) THEN Failed(f)
        ELSE ThenSave(key, f, spliceEach(OrEmpty(f).items, items))

\* a getItemsByFilter that stops at the second element the filter accepts
getItemsByFilterTwo(key, store, filterItem) ==
    LET f           == JsonFind(key, store)
        Accepted(i) == Accepts(filterItem, i)
        found       == SelectSeq(OrEmpty(f).items, Accepted)
    IN  IF FindFailed(f) THEN Failed(f)
        ELSE Done(Returned(JArr(SubSeq(found, 1, IF Len(found) > 2 THEN 2 ELSE Len(found)))),
                  f.store, f.calls)

getItemsByFilter(key, store, filterItem) ==
    LET f           == JsonFind(key, store)
        Accepted(i) == Accepts(filterItem, i)
    IN  IF FindFailed(f) THEN Failed(f)
        ELSE Done(Returned(JArr(SelectSeq(OrEmpty(f).items, Accepted))), f.store, f.calls)

RECURSIVE insertSorted(_, _, _), sort(_, _)
\* item placed after the elements of the sorted sequence that do not compare
\* greater than it
insertSorted(cmp, sorted, item) ==
    IF sorted = <<>> THEN <<item>>
    ELSE IF Compare(cmp, Head(sorted), item) <= 0
         THEN <<Head(sorted)>> \o insertSorted(cmp, Tail(sorted), item)
    ELSE <<item>> \o sorted

\* Array.prototype.sort, which is stable
sort(cmp, items) ==
    IF items = <<>> THEN <<>>
    ELSE insertSorted(cmp, sort(cmp, SubSeq(items, 1, Len(items) - 1)), items[Len(items)])

\* a sortItems that saves the sorted array
sortItemsSaving(key, store, cmp) ==
    LET f == JsonFind(key, store)
        sorted == sort(IF cmp = "omitted" THEN "compareById" ELSE cmp, OrEmpty(f).items)
        saved  == ThenSave(key, f, sorted)
    IN  IF FindFailed(f) THEN Failed(f)
        ELSE Done(Returned(JArr(sorted)), saved.store, saved.calls)

\* items.sort(compareItem ?? this.compareItem); "omitted" stands for no argument
sortItems(key, store, cmp) ==
    LET f == JsonFind(key, store)
    IN  IF FindFailed(f) THEN Failed(f)
        ELSE Done(Returned(JArr(sort(IF cmp = "omitted" THEN "compareById" ELSE cmp,
                                     OrEmpty(f).items))),
                  f.store, f.calls)

\* the stored array is not grown beyond MaxStored items
MaxStored == 3

StoredLen(key) ==
    LET f == JsonFind(key, sessionStorage)
    IN  IF FindFailed(f) THEN 0 ELSE Len(OrEmpty(f).items)

CollectionInit ==
    /\ sessionStorage = [k \in StorageKeys |-> None]
    /\ wrapper = [kind |-> "jsons", key |-> "k1"]
    /\ last = [op |-> "none", key |-> wrapper.key, arg |-> NoJson,
               result |-> Void(NoJson), present |-> FALSE, calls |-> <<>>]
    /\ lastMut = Mutation("none", NoJson)
    /\ prevMut = [op |-> "none", differs |-> FALSE]
    /\ inFlight = <<>>

\* a call of the collection wrapper: d is what the method did
Calls(op, arg, d) ==
    /\ sessionStorage' = d.store
    /\ last' = Completed(op, wrapper.key, arg, d)
    /\ UNCHANGED <<wrapper, lastMut, prevMut, inFlight>>

\* the methods inherited from JsonValueStorageWrapper
ItemsFind     == Calls("find", NoJson, JsonFind(wrapper.key, sessionStorage))
ItemsRetrieve == Calls("retrieve", NoJson, JsonRetrieve(wrapper.key, sessionStorage))
ItemsSave(items) == Calls("save", items, JsonSave(wrapper.key, sessionStorage, items))
ItemsRemove   == Calls("remove", NoJson, JsonRemove(wrapper.key, sessionStorage))

AddItem(item) ==
    /\ StoredLen(wrapper.key) + 1 <= MaxStored
    /\ Calls("addItem", item, addItem(wrapper.key, sessionStorage, item))

AddItems(items) ==
    /\ StoredLen(wrapper.key) + Len(items) <= MaxStored
    /\ Calls("addItems", JArr(items), addItems(wrapper.key, sessionStorage, items))

UpdateItem(item) ==
    Calls("updateItem", item, updateItem(wrapper.key, sessionStorage, item))

UpdateItems(items) ==
    Calls("updateItems", JArr(items), updateItems(wrapper.key, sessionStorage, items))

RemoveItem(item) ==
    Calls("removeItem", item, removeItem(wrapper.key, sessionStorage, item))

RemoveItems(items) ==
    Calls("removeItems", JArr(items), removeItems(wrapper.key, sessionStorage, items))

GetItemsByFilter(filterItem) ==
    Calls("getItemsByFilter", JArr(filterItem),
          getItemsByFilter(wrapper.key, sessionStorage, filterItem))

\* the name under which a sortItems call is recorded, with its comparator argument
SortItemsWith(cmp) == "sortItems(" \o cmp \o ")"

SortItems(cmp) ==
    Calls(SortItemsWith(cmp), NoJson, sortItems(wrapper.key, sessionStorage, cmp))

\* text that other code writes: a JSON number, and text that is not JSON
ForeignTexts == {<<"1">>, <<"a">>}

\* other code writes text at a key of the backend
ForeignSave(key, text) ==
    Calls("storage.save", NoJson,
          Done(Void(NoJson), saveToStorage(sessionStorage, key, text), <<Call("save", key)>>))

CollectionNext ==
    \/ ItemsFind
    \/ ItemsRetrieve
    \/ \E items \in ItemLists : ItemsSave(JArr(items))
    \/ ItemsSave(JCircular)
    \/ ItemsRemove
    \/ \E item \in Items : AddItem(item)
    \/ \E items \in ItemLists : AddItems(items)
    \/ \E item \in Items : UpdateItem(item)
    \/ \E items \in ItemLists : UpdateItems(items)
    \/ \E item \in Items : RemoveItem(item)
    \/ \E items \in ItemLists : RemoveItems(items)
    \/ \E filterItem \in Filters : GetItemsByFilter(filterItem)
    \/ \E cmp \in Comparators \cup {"omitted"} : SortItems(cmp)
    \/ \E key \in Keys, text \in ForeignTexts : ForeignSave(key, text)

CollectionSpec == CollectionInit /\ [][CollectionNext]_vars

----------------------------------------------------------------------------
(* The collection wrapper called by one caller that awaits every call       *)
(* before it makes the next, from a key that was never written.  lastMut    *)
(* carries the sequence the caller expects: the in-memory effects of its    *)
(* successful calls, applied in call order to the empty sequence.           *)

\* a mutator of the collection wrapper, by name; arg is an item or an array of items
mutate(op, key, store, arg) ==
    CASE op = "addItem"     -> addItem(key, store, arg)
      [] op = "addItems"    -> addItems(key, store, arg.items)
      [] op = "updateItem"  -> updateItem(key, store, arg)
      [] op = "updateItems" -> updateItems(key, store, arg.items)
      [] op = "removeItem"  -> removeItem(key, store, arg)
      [] OTHER              -> removeItems(key, store, arg.items)

\* the position of the first element of S of the same id as item; 0 for none
FirstOfId(S, item) ==
    LET hits == {i \in 1..Len(S) : S[i].items[1].n = item.items[1].n}
    IN  IF hits = {} THEN 0 ELSE CHOOSE i \in hits : \A j \in hits : i <= j

DropAt(S, i) == [k \in 1..(Len(S) - 1) |-> IF k < i THEN S[k] ELSE S[k + 1]]

RECURSIVE DropEach(_, _)
DropEach(S, items) ==
    IF items = <<>> THEN S
    ELSE DropEach(IF FirstOfId(S, Head(items)) = 0 THEN S
                  ELSE DropAt(S, FirstOfId(S, Head(items))),
                  Tail(items))

\* what the documentation of a mutator says it does to the sequence
InMemory(op, S, arg) ==
    CASE op = "addItem"     -> Append(S, arg)
      [] op = "addItems"    -> S \o arg.items
      [] op = "updateItem"  ->
            IF FirstOfId(S, arg) = 0 THEN S ELSE [S EXCEPT ![FirstOfId(S, arg)] = arg]
      [] op = "updateItems" ->
            [i \in 1..Len(S) |->
                IF FirstOfId(arg.items, S[i]) = 0 THEN S[i]
                ELSE arg.items[FirstOfId(arg.items, S[i])]]
      [] op = "removeItem"  ->
            IF FirstOfId(S, arg) = 0 THEN S ELSE DropAt(S, FirstOfId(S, arg))
      [] OTHER              -> DropEach(S, arg.items)

\* await wrapper.<op>(arg), the call before it having completed
Awaited(op, arg) ==
    LET d == mutate(op, wrapper.key, sessionStorage, arg)
    IN  /\ Len(InMemory(op, lastMut.arg.items, arg)) <= MaxStored
        /\ sessionStorage' = d.store
        /\ last' = Completed(op, wrapper.key, arg, d)
        /\ IF d.result.status = "void"
           THEN /\ lastMut' = Mutation(op, JArr(InMemory(op, lastMut.arg.items, arg)))
                /\ prevMut' = [op |-> lastMut.op, differs |-> FALSE]
           ELSE UNCHANGED <<lastMut, prevMut>>
        /\ UNCHANGED <<wrapper, inFlight>>

SequentialNext ==
    \/ \E op \in {"addItem", "updateItem", "removeItem"}, item \in Items :
          Awaited(op, item)
    \/ \E op \in {"addItems", "updateItems", "removeItems"}, items \in ItemLists :
          Awaited(op, JArr(items))

SequentialSpec == CollectionInit /\ [][SequentialNext]_vars

----------------------------------------------------------------------------
(* WebStorage itself, both partitions, called directly.  The keys include   *)
(* ones that themselves begin with a partition prefix.                      *)

\* sessionStorage.getItem(SECURE_PREFIX + key) ?? undefined
getFromSecureStorage(store, key) == store[SECURE_PREFIX \o key]

\* a secure save that writes under the regular prefix
saveToSecureStorageRegular(store, key, value) ==
    [store EXCEPT ![REGULAR_PREFIX \o key] = Some(value)]

\* sessionStorage.setItem(SECURE_PREFIX + key, value)
saveToSecureStorage(store, key, value) ==
    [store EXCEPT ![SECURE_PREFIX \o key] = Some(value)]

\* sessionStorage.removeItem(SECURE_PREFIX + key)
removeFromSecureStorage(store, key) ==
    [store EXCEPT ![SECURE_PREFIX \o key] = None]

WebKeys   == {"k1", "secure_k1", "regular_k1"}
WebValues == {<<"0">>, <<"a">>}

WebStorageKeys ==
    {REGULAR_PREFIX \o k : k \in WebKeys} \cup {SECURE_PREFIX \o k : k \in WebKeys}

\* the value a get resolves to: the text, or undefined
WebFound(o) == IF o.found THEN Returned(o.value) ELSE Undefined(NoString)

WebInit ==
    /\ sessionStorage = [k \in WebStorageKeys |-> None]
    /\ wrapper = [kind |-> "string", key |-> "k1"]
    /\ last = [op |-> "none", key |-> "k1", arg |-> NoString, result |-> Void(NoString)]
    /\ lastMut = Mutation("none", NoString)
    /\ prevMut = [op |-> "none", differs |-> FALSE]
    /\ inFlight = <<>>

WebCall(op, key, arg, result, store) ==
    /\ sessionStorage' = store
    /\ last' = [op |-> op, key |-> key, arg |-> arg, result |-> result]
    /\ UNCHANGED <<wrapper, lastMut, prevMut, inFlight>>

GetFromStorage(key) ==
    WebCall("getFromStorage", key, NoString,
            WebFound(getFromStorage(sessionStorage, key)), sessionStorage)

SaveToStorage(key, value) ==
    WebCall("saveToStorage", key, value, Void(NoString),
            saveToStorage(sessionStorage, key, value))

RemoveFromStorage(key) ==
    WebCall("removeFromStorage", key, NoString, Void(NoString),
            removeFromStorage(sessionStorage, key))

GetFromSecureStorage(key) ==
    WebCall("getFromSecureStorage", key, NoString,
            WebFound(getFromSecureStorage(sessionStorage, key)), sessionStorage)

SaveToSecureStorage(key, value) ==
    WebCall("saveToSecureStorage", key, value, Void(NoString),
            saveToSecureStorage(sessionStorage, key, value))

RemoveFromSecureStorage(key) ==
    WebCall("removeFromSecureStorage", key, NoString, Void(NoString),
            removeFromSecureStorage(sessionStorage, key))

WebNext ==
    \/ \E key \in WebKeys : GetFromStorage(key)
    \/ \E key \in WebKeys, value \in WebValues : SaveToStorage(key, value)
    \/ \E key \in WebKeys : RemoveFromStorage(key)
    \/ \E key \in WebKeys : GetFromSecureStorage(key)
    \/ \E key \in WebKeys, value \in WebValues : SaveToSecureStorage(key, value)
    \/ \E key \in WebKeys : RemoveFromSecureStorage(key)

WebSpec == WebInit /\ [][WebNext]_vars

----------------------------------------------------------------------------
(* Calls that overlap.  A collection mutator is an async method with two    *)
(* awaits: the backend find and the backend save.  Between the two, other   *)
(* calls run.  Two callers hold wrappers on the one backend and make one    *)
(* call at a time each; a caller's call is in inFlight from its find until  *)
(* the caller starts its next call.                                         *)

MaxRace   == 2   \* longest array a racing addItem may read before it appends
Slots     == {1, 2}
RaceItems == {Item(1, 0), Item(2, 0)}

\* the keys caller c holds a wrapper for: both callers share k1, the second also has k2
WrapperKeys(c) == IF c = 1 THEN {"k1"} ELSE Keys

\* (await this.find()), reading a fixed key instead of this.key
mutatorFindFirstKey(key, store) == JsonFind("k1", store).result

\* (await this.find()) of addItem and removeItem: what the call holds while it waits
mutatorFind(key, store) == JsonFind(key, store).result

\* a second half that reads the key again before it changes and saves the array
mutatorSaveRereading(op, key, store, found, item) ==
    IF op = "addItem" THEN addItem(key, store, item) ELSE removeItem(key, store, item)

\* the rest of addItem and removeItem after the find delivered found: the
\* change of the array read then, and await this.save(items) on the store as it is now
mutatorSave(op, key, store, found, item) ==
    LET f     == Done(found, store, <<Call("find", key)>>)
        items == OrEmpty(f).items
        index == findIndex(items, item)
    IN  IF FindFailed(f) THEN Failed(f)
        ELSE ThenSave(key, f,
                 IF op = "addItem" THEN Append(items, item)
                 ELSE IF index # 0 THEN splice(items, index) ELSE items)

NoCall ==
    [op |-> "none", key |-> "k1", arg |-> NoJson, pc |-> "done",
     found |-> Undefined(NoJson), result |-> Void(NoJson), overlap |-> FALSE]

RaceInit ==
    /\ sessionStorage = [k \in StorageKeys |-> None]
    /\ wrapper = [kind |-> "jsons", key |-> "k1"]
    /\ last = [op |-> "none", key |-> wrapper.key, arg |-> NoJson,
               result |-> Void(NoJson), present |-> FALSE, calls |-> <<>>]
    /\ lastMut = Mutation("none", NoJson)
    /\ prevMut = [op |-> "none", differs |-> FALSE]
    /\ inFlight = [c \in Slots |-> NoCall]

\* caller c moves to call; overlap of the other caller's completed call says
\* that it saved while c's call of then was waiting, which a new call of c ends
Moves(c, call, store) ==
    /\ sessionStorage' = store
    /\ inFlight' = [d \in Slots |->
                      IF d = c THEN call
                      ELSE IF call.pc = "found" \/ call.op = "remove"
                           THEN [inFlight[d] EXCEPT !.overlap = FALSE]
                           ELSE inFlight[d]]
    /\ UNCHANGED <<wrapper, last, lastMut, prevMut>>

\* caller c calls addItem(item) or removeItem(item) of its wrapper for key:
\* the call runs up to the answer of the backend find
MutatorFind(c, op, key, item) ==
    /\ inFlight[c].pc = "done"
    /\ op = "addItem" => StoredLen(key) < MaxRace
    /\ Moves(c, [op |-> op, key |-> key, arg |-> item, pc |-> "found",
                 found |-> mutatorFind(key, sessionStorage),
                 result |-> Void(NoJson), overlap |-> FALSE],
             sessionStorage)

\* the waiting call of caller c goes on: it changes the array it read and saves it
MutatorSave(c) ==
    LET call == inFlight[c]
        d    == mutatorSave(call.op, call.key, sessionStorage, call.found, call.arg)
    IN  /\ call.pc = "found"
        /\ Moves(c, [call EXCEPT !.pc = "done", !.result = d.result,
                        !.overlap = \E o \in Slots \ {c} :
                                       /\ inFlight[o].pc = "found"
                                       /\ inFlight[o].key = call.key],
                 d.store)

\* caller c calls remove() of its wrapper for key: one backend call
RaceRemove(c, key) ==
    LET d == JsonRemove(key, sessionStorage)
    IN  /\ inFlight[c].pc = "done"
        /\ Moves(c, [op |-> "remove", key |-> key, arg |-> NoJson, pc |-> "done",
                     found |-> Undefined(NoJson), result |-> d.result,
                     overlap |-> FALSE],
                 d.store)

RaceNext ==
    \/ \E c \in Slots, op \in {"addItem", "removeItem"}, item \in RaceItems :
          \E key \in WrapperKeys(c) : MutatorFind(c, op, key, item)
    \/ \E c \in Slots : MutatorSave(c)
    \/ \E c \in Slots : \E key \in WrapperKeys(c) : RaceRemove(c, key)

RaceSpec == RaceInit /\ [][RaceNext]_vars

----------------------------------------------------------------------------
(* Properties. *)

\* the text the wrapper of a kind writes for a value (the table of encodings)
Encoding(kind, v) ==
    CASE kind = "string"  -> v
      [] kind = "number"  -> NumberToString(v)
      [] kind = "boolean" -> IF v THEN <<"1">> ELSE <<"0">>
      [] kind = "date"    -> NumberToString(v.time)
      [] kind = "json"    -> JSONstringify(v)
      [] OTHER            -> fromByteArray(v)

EmptyStore == [k \in StorageKeys |-> None]

\* the outcome of find on a store that holds nothing but text at the key
FindOn(kind, key, text) ==
    WrapperFind(kind, key, [EmptyStore EXCEPT ![REGULAR_PREFIX \o key] = Some(text)]).result

NotFound == "No value found for key " \o wrapper.key

AbsentWhenMissing == {"string", "number", "date", "json", "binary"}

\* C1: for the string, number and boolean wrappers, save(v) followed by find()
\* returns a value equal to v, for every text v (the empty text included), every
\* boolean and every integer of the bounded range.
C1_ScalarRoundTrip ==
    ( /\ wrapper.kind \in {"string", "number", "boolean"}
      /\ last.op = "find"
      /\ lastMut.op = "save"
      /\ wrapper.kind = "number" => lastMut.arg.cls = "finite" )
    => last.result = Returned(lastMut.arg)

C1_Witness ==
    /\ wrapper.kind = "string"
    /\ last.op = "find"
    /\ lastMut = Mutation("save", <<>>)
    /\ last.result = Returned(<<>>)

\* C2: for the string, number, date, JSON and binary wrappers, find() returns
\* undefined whenever the backend holds no value for the key: the key was never
\* written, or the last completed mutation of the key was a remove.
C2_FindAbsent ==
    ( /\ wrapper.kind \in AbsentWhenMissing
      /\ last.op = "find"
      /\ \/ ~last.present
         \/ lastMut.op \in {"none", "remove", "storage.remove"} )
    => last.result.status = "undefined"

C2_Witness ==
    /\ wrapper.kind = "json"
    /\ last.op = "find"
    /\ lastMut.op = "remove"
    /\ prevMut.op = "save"
    /\ last.result.status = "undefined"

\* C3: for the string, number, date, JSON and binary wrappers, retrieve() on a key
\* for which the backend holds no value throws 'No value found for key <key>' and
\* returns no value.
C3_RetrieveAbsentThrows ==
    ( /\ wrapper.kind \in AbsentWhenMissing
      /\ last.op = "retrieve"
      /\ ~last.present )
    => /\ last.result.status = "throws"
       /\ last.result.message = NotFound

C3_Witness ==
    /\ wrapper.kind = "date"
    /\ last.op = "retrieve"
    /\ ~last.present
    /\ lastMut.op = "remove"
    /\ last.result.status = "throws"

\* C4: for the string and number wrappers, retrieve() throws NotFound only if the
\* backend holds no value for the key; whenever a value is stored (the empty text
\* and "0" included) retrieve() returns exactly what find() returns.
C4_RetrieveThrowsOnlyWhenAbsent ==
    ( /\ wrapper.kind \in {"string", "number"}
      /\ last.op = "retrieve"
      /\ last.present )
    => last.result = FindOn(wrapper.kind, wrapper.key, Held(wrapper.key).value)

\* C5: find() and retrieve() of every wrapper are read-only: the call issues no
\* backend save or remove, and the stored value of every key is the same after the
\* call, whether it returns or throws, as before it.
C5_ReadOnly ==
    [][ last'.op \in {"find", "retrieve"}
        => /\ sessionStorage' = sessionStorage
           /\ \A i \in 1..Len(last'.calls) : last'.calls[i].op = "find" ]_vars

C5_Witness ==
    /\ wrapper.kind = "json"
    /\ last.op = "retrieve"
    /\ last.present
    /\ last.result.status = "throws"
    /\ sessionStorage[REGULAR_PREFIX \o "k2"].found

\* C6: save fully overwrites: after save(v1) and then save(v2) on the same wrapper
\* the backend holds exactly the encoding of v2 at the key, and a following find()
\* returns what find() returns on a store that holds only that encoding, whatever
\* v1 was.
C6_SaveOverwrites ==
    /\ (last.op = "save" /\ last.result.status = "void")
       => Held(wrapper.key) = Some(Encoding(wrapper.kind, last.arg))
    /\ (last.op = "find" /\ lastMut.op = "save")
       => last.result = FindOn(wrapper.kind, wrapper.key,
                               Encoding(wrapper.kind, lastMut.arg))

C6_Witness ==
    /\ wrapper.kind = "string"
    /\ last.op = "find"
    /\ lastMut.op = "save"
    /\ prevMut.op = "save"
    /\ prevMut.differs
    /\ last.result = Returned(lastMut.arg)

\* C7: remove() is idempotent: it never throws, after it the backend holds no value
\* for the key, and on a key that holds nothing (never written, or just removed) it
\* leaves the store as it was.
C7_RemoveIdempotent ==
    [][ last'.op = "remove"
        => /\ last'.result.status = "void"
           /\ ~sessionStorage'[REGULAR_PREFIX \o wrapper.key].found
           /\ ~Held(wrapper.key).found => sessionStorage' = sessionStorage ]_vars

C7_Witness ==
    /\ last.op = "remove"
    /\ lastMut.op = "remove"
    /\ prevMut.op = "remove"
    /\ ~last.present
    /\ last.result.status = "void"
    /\ ~Held(wrapper.key).found

\* C8 (as stated): the boolean wrapper's find() returns false, not undefined, when
\* the backend holds no value for the key, so retrieve() on a missing key never throws.
C8_BooleanAbsentIsFalse ==
    ( /\ wrapper.kind = "boolean"
      /\ last.op \in {"find", "retrieve"}
      /\ ~last.present )
    => last.result = Returned(FALSE)

\* C8 (amended): the boolean wrapper's find() returns undefined when the backend
\* holds no value for the key, as every other wrapper's does, so retrieve() on a
\* missing boolean key throws NotFound.
C8_BooleanAbsentIsUndefined ==
    ( /\ wrapper.kind = "boolean"
      /\ ~last.present )
    => /\ last.op = "find" => last.result.status = "undefined"
       /\ last.op = "retrieve" => last.result.status = "throws"

C8_Witness ==
    /\ wrapper.kind = "boolean"
    /\ last.op = "find"
    /\ ~last.present
    /\ lastMut.op = "remove"
    /\ last.result.status = "undefined"

\* C9: BooleanValueStorageWrapper.retrieve() rejects with 'No value found for key
\* <key>' when the backend holds no value for the key, and returns the decoded
\* boolean (false for a stored "0") whenever a value is stored.
C9_BooleanRetrieve ==
    ( /\ wrapper.kind = "boolean"
      /\ last.op = "retrieve" )
    => IF last.present
       THEN last.result = Returned(Held(wrapper.key).value = <<"1">>)
       ELSE last.result = Throws(FALSE, NotFound)

C9_Witness ==
    /\ wrapper.kind = "boolean"
    /\ last.op = "retrieve"
    /\ lastMut = Mutation("save", FALSE)
    /\ Held(wrapper.key) = Some(<<"0">>)
    /\ last.result = Returned(FALSE)

\* C10: binary round trip: for every byte sequence b, the empty one included,
\* save(b) stores exactly the padded standard base64 text of b and a following
\* find() returns a byte sequence equal to b, not undefined.
C10_BinaryRoundTrip ==
    /\ fromByteArray(<<1, 2, 3, 4, 5>>) = <<"A", "Q", "I", "D", "B", "A", "U", "=">>
    /\ (wrapper.kind = "binary" /\ last.op = "save")
       => Held(wrapper.key) = Some(fromByteArray(last.arg))
    /\ (wrapper.kind = "binary" /\ last.op = "find" /\ lastMut.op = "save")
       => last.result = Returned(lastMut.arg)

InvalidTimestamp == "Invalid timestamp value stored for key " \o wrapper.key

\* C11: date round trip: for every Date d that save accepts, save(d) stores the
\* decimal text of d.getTime() and a following find() returns a Date with the same
\* time value; save(d) never succeeds with the following find() throwing.
C11_DateRoundTrip ==
    /\ (wrapper.kind = "date" /\ last.op = "save" /\ last.result.status = "void")
       => Held(wrapper.key) = Some(NumberToString(last.arg.time))
    /\ (wrapper.kind = "date" /\ last.op = "find" /\ lastMut.op = "save")
       => /\ last.result.status = "value"
          /\ last.result.value.time = lastMut.arg.time
          /\ last.result.value.time.cls = "finite"

\* C12: DateValueStorageWrapper.find() and retrieve() throw a decode error naming
\* the key whenever the stored text does not parse to a finite number ("NaN",
\* "Infinity", text that is no number), and return a Date only when it does.
C12_DateDecodeRejectsNonFinite ==
    ( /\ wrapper.kind = "date"
      /\ last.op \in {"find", "retrieve"}
      /\ last.present )
    => LET n == StringToNumber(Held(wrapper.key).value)
       IN  IF n.cls = "finite"
           THEN last.result = Returned(DateOfTime(n))
           ELSE last.result = Throws(NoDate, InvalidTimestamp)

\* C13: NumberValueStorageWrapper.find() never throws because of the stored text:
\* for every stored text it returns a number, NaN for text that is no number; and
\* save(NaN) and save(Infinity) store the texts "NaN" and "Infinity".
C13_NumberFindNeverThrows ==
    /\ (wrapper.kind = "number" /\ last.op = "find" /\ last.present)
       => /\ last.result.status = "value"
          /\ last.result.value.cls \in {"finite", "NaN", "Infinity", "-Infinity"}
          /\ Held(wrapper.key).value \in {<<"a">>, strNaN}
                => last.result.value = NaN
          /\ Held(wrapper.key).value = <<"1">> => last.result.value = Finite(1)
    /\ (wrapper.kind = "number" /\ last.op = "save")
       => /\ last.result.status = "void"
          /\ last.arg = NaN => Held(wrapper.key) = Some(<<"N", "a", "N">>)
          /\ last.arg = Infinity
                => Held(wrapper.key) = Some(<<"I", "n", "f", "i", "n", "i", "t", "y">>)

C13_Witness ==
    /\ wrapper.kind = "number"
    /\ last.op = "find"
    /\ Held(wrapper.key) = Some(<<"a">>)
    /\ last.result = Returned(NaN)

\* C14: boolean codec: save(true) writes exactly "1" and save(false) exactly "0";
\* when a value is stored, find() returns true if and only if the stored text is
\* "1", and false for every other stored text ("0", "a", the empty text).
C14_BooleanCodec ==
    /\ (wrapper.kind = "boolean" /\ last.op = "save")
       => /\ last.result.status = "void"
          /\ Held(wrapper.key) = Some(IF last.arg THEN <<"1">> ELSE <<"0">>)
    /\ (wrapper.kind = "boolean" /\ last.op = "find" /\ last.present)
       => /\ last.result.status = "value"
          /\ last.result.value <=> (Held(wrapper.key).value = <<"1">>)

C14_Witness ==
    /\ wrapper.kind = "boolean"
    /\ last.op = "find"
    /\ lastMut.op = "storage.save"
    /\ Held(wrapper.key) = Some(<<"a">>)
    /\ last.result = Returned(FALSE)

\* C15: the JSON wrapper's codec failures are errors that carry the key: find() and
\* retrieve() on stored text that is not valid JSON throw 'Failed to parse JSON for
\* key <key>', and save of a circular value throws 'Failed to stringify JSON for
\* key <key>' without calling the backend's save, the store staying as it was.
C15_JsonCodecErrors ==
    [][ /\ ( /\ wrapper.kind = "json"
             /\ last'.op \in {"find", "retrieve"}
             /\ Held(wrapper.key).found
             /\ ~JSONparse(Held(wrapper.key).value).ok )
           => last'.result = Throws(NoJson, "Failed to parse JSON for key " \o wrapper.key)
        /\ ( /\ wrapper.kind = "json"
             /\ last'.op = "save"
             /\ last'.arg = JCircular )
           => /\ last'.result =
                    Throws(NoJson, "Failed to stringify JSON for key " \o wrapper.key)
              /\ last'.calls = <<>>
              /\ sessionStorage' = sessionStorage ]_vars

C15_Witness ==
    /\ wrapper.kind = "json"
    /\ last.op = "save"
    /\ last.arg = JCircular
    /\ last.result.status = "throws"
    /\ lastMut.op = "save"
    /\ Held(wrapper.key).found

\* C16: backend failures propagate as they are: when the backend's find, save or
\* remove rejects with error E, the wrapper's find, retrieve, save or remove that
\* issued the call rejects with E itself (JsonValueStorageWrapper.save included),
\* not wrapped, not replaced by NotFound or a codec error, and the call is issued
\* once only.
C16_BackendErrorsPropagate ==
    [][ last'.op \in {Rejected("find"), Rejected("retrieve"),
                      Rejected("save"), Rejected("remove")}
        => /\ last'.result = Throws(NoValue(wrapper.kind), StorageError)
           /\ Len(last'.calls) = 1
           /\ last'.calls[1].key = wrapper.key
           /\ Rejected(last'.calls[1].op) =
                 (IF last'.op = Rejected("retrieve") THEN Rejected("find") ELSE last'.op)
      ]_vars

C16_Witness ==
    /\ wrapper.kind = "json"
    /\ last.op = Rejected("save")
    /\ last.arg = JArr(<<JNum(1)>>)
    /\ last.result = Throws(NoJson, StorageError)
    /\ lastMut.op = "save"
    /\ Held(wrapper.key).found

\* an operation that ends in an error leaves the store as it was
ThrowsKeepStore(d) == d.result.status = "throws" => d.store = sessionStorage

\* the key holds nothing or the JSON text of an array
HoldsItems(store, key) ==
    LET held == store[REGULAR_PREFIX \o key]
    IN  ~held.found \/ (JSONparse(held.value).ok /\ JSONparse(held.value).value.t = "arr")

\* the stored sequence: the empty sequence when the key holds nothing
ItemsAt(store, key) ==
    LET held == store[REGULAR_PREFIX \o key]
    IN  IF held.found THEN JSONparse(held.value).value.items ELSE <<>>

SavedItems(items) == Some(JSONstringify(JArr(items)))

SameId(a, b) == a.items[1].n = b.items[1].n

\* C17: no partial failure: whenever a wrapper operation ends in an error that the
\* wrapper itself raises (NotFound from retrieve, a decode error from find, the
\* encode error of the JSON save, 'Invalid Date value' from the date save,
\* ItemNotFound from updateItem, a decode error inside a collection mutator), the
\* backend holds at every key what it held before the operation.  The steps are
\* those of the collection wrapper; the find, retrieve and date save of the other
\* wrappers are applied to every store that a find step meets.
C17_NoPartialFailure ==
    [][ /\ last'.result.status = "throws" => sessionStorage' = sessionStorage
        /\ last'.op = "find"
           => /\ \A kind \in Kinds :
                    /\ ThrowsKeepStore(WrapperFind(kind, wrapper.key, sessionStorage))
                    /\ ThrowsKeepStore(WrapperRetrieve(kind, wrapper.key, sessionStorage))
              /\ \A value \in InputsOf("date") :
                    ThrowsKeepStore(DateSave(wrapper.key, sessionStorage, value)) ]_vars

C17_Witness ==
    /\ last.op = "updateItem"
    /\ last.arg = Item(2, 0)
    /\ last.result = Throws(NoJson, ItemNotFound)
    /\ Held(wrapper.key) = SavedItems(<<Item(1, 0), Item(1, 1)>>)
    /\ Held("k2").found

\* C18: addItem(x) and addItems(xs) append: with S the stored sequence before the
\* call (empty when the key is absent), addItem(x) saves S followed by x and
\* addItems(xs) saves S followed by xs; the existing and the new items keep their
\* order and none is dropped or deduplicated.
C18_AddAppends ==
    [][ /\ (last'.op = "addItem" /\ HoldsItems(sessionStorage, wrapper.key))
           => /\ last'.result.status = "void"
              /\ sessionStorage'[REGULAR_PREFIX \o wrapper.key] =
                    SavedItems(ItemsAt(sessionStorage, wrapper.key) \o <<last'.arg>>)
        /\ (last'.op = "addItems" /\ HoldsItems(sessionStorage, wrapper.key))
           => /\ last'.result.status = "void"
              /\ sessionStorage'[REGULAR_PREFIX \o wrapper.key] =
                    SavedItems(ItemsAt(sessionStorage, wrapper.key) \o last'.arg.items)
      ]_vars

C18_Witness ==
    /\ last.op = "addItems"
    /\ last.present
    /\ last.arg = JArr(<<Item(1, 1), Item(2, 0)>>)
    /\ Held(wrapper.key) = SavedItems(<<Item(2, 0), Item(1, 1), Item(2, 0)>>)

\* C19: updateItem(item): if a stored element compares equal to item, the saved
\* sequence is the stored one with the first such element replaced by item at its
\* position, the length and every other element unchanged; if none compares equal
\* (an absent key included) it throws ItemNotFound, issues no save and leaves the
\* store as it was.
C19_UpdateItem ==
    [][ (last'.op = "updateItem" /\ HoldsItems(sessionStorage, wrapper.key))
        => LET S     == ItemsAt(sessionStorage, wrapper.key)
               T     == ItemsAt(sessionStorage', wrapper.key)
               item  == last'.arg
               First(i) == /\ SameId(S[i], item)
                           /\ \A j \in 1..(i - 1) : ~SameId(S[j], item)
           IN  IF \E i \in 1..Len(S) : SameId(S[i], item)
               THEN /\ last'.result.status = "void"
                    /\ sessionStorage'[REGULAR_PREFIX \o wrapper.key] = SavedItems(T)
                    /\ Len(T) = Len(S)
                    /\ \A i \in 1..Len(S) :
                          T[i] = IF First(i) THEN item ELSE S[i]
               ELSE /\ last'.result = Throws(NoJson, ItemNotFound)
                    /\ \A c \in 1..Len(last'.calls) : last'.calls[c].op # "save"
                    /\ sessionStorage' = sessionStorage ]_vars

C19_Witness ==
    /\ last.op = "updateItem"
    /\ last.arg = Item(1, 1)
    /\ last.result.status = "void"
    /\ Held(wrapper.key) = SavedItems(<<Item(2, 0), Item(1, 1), Item(1, 0)>>)

\* C20: updateItems(items) only updates: the saved sequence is as long as the
\* stored one; at each position the element is replaced by the first input element
\* that compares equal to it and is left as it was when there is none; input
\* elements that match nothing are not appended and raise no error, and
\* updateItems([]) saves the sequence unchanged.
C20_UpdateItemsOnlyUpdates ==
    [][ (last'.op = "updateItems" /\ HoldsItems(sessionStorage, wrapper.key))
        => LET S     == ItemsAt(sessionStorage, wrapper.key)
               T     == ItemsAt(sessionStorage', wrapper.key)
               items == last'.arg.items
               FirstEqual(k, i) == /\ SameId(items[k], S[i])
                                   /\ \A j \in 1..(k - 1) : ~SameId(items[j], S[i])
           IN  /\ last'.result.status = "void"
               /\ sessionStorage'[REGULAR_PREFIX \o wrapper.key] = SavedItems(T)
               /\ Len(T) = Len(S)
               /\ \A i \in 1..Len(S) :
                     IF \E k \in 1..Len(items) : SameId(items[k], S[i])
                     THEN \E k \in 1..Len(items) : FirstEqual(k, i) /\ T[i] = items[k]
                     ELSE T[i] = S[i]
               /\ items = <<>> => T = S ]_vars

C20_Witness ==
    /\ last.op = "updateItems"
    /\ last.present
    /\ last.arg = JArr(<<Item(2, 0), Item(1, 1)>>)
    /\ last.result.status = "void"
    /\ Held(wrapper.key) = SavedItems(<<Item(1, 1), Item(1, 1)>>)

\* the sequence without its first element of the same id as item, if there is one
WithoutFirst(S, item) ==
    IF \E i \in 1..Len(S) : SameId(S[i], item)
    THEN LET i == CHOOSE i \in 1..Len(S) :
                     SameId(S[i], item) /\ \A j \in 1..(i - 1) : ~SameId(S[j], item)
         IN  [k \in 1..(Len(S) - 1) |-> IF k < i THEN S[k] ELSE S[k + 1]]
    ELSE S

FindThenSave == <<Call("find", wrapper.key), Call("save", wrapper.key)>>
FindOnly     == <<Call("find", wrapper.key)>>

\* C21: removeItem(item) removes exactly the first stored element that compares
\* equal to item and keeps every other element, later equal ones included, in
\* order; when none compares equal it raises no error and still issues one save,
\* of the unchanged sequence.
C21_RemoveItem ==
    [][ (last'.op = "removeItem" /\ HoldsItems(sessionStorage, wrapper.key))
        => LET S == ItemsAt(sessionStorage, wrapper.key)
           IN  /\ last'.result.status = "void"
               /\ last'.calls = FindThenSave
               /\ sessionStorage'[REGULAR_PREFIX \o wrapper.key] =
                     SavedItems(WithoutFirst(S, last'.arg)) ]_vars

C21_Witness ==
    /\ last.op = "removeItem"
    /\ last.present
    /\ last.arg = Item(1, 0)
    /\ last.result.status = "void"
    /\ Held(wrapper.key) = SavedItems(<<Item(2, 0), Item(1, 1)>>)

RECURSIVE WithoutEach(_, _)
WithoutEach(S, items) ==
    IF items = <<>> THEN S
    ELSE WithoutEach(WithoutFirst(S, Head(items)), Tail(items))

RECURSIVE Matches(_, _)
\* how many of the input items find an element in the working array
Matches(S, items) ==
    IF items = <<>> THEN 0
    ELSE (IF \E i \in 1..Len(S) : SameId(S[i], Head(items)) THEN 1 ELSE 0)
         + Matches(WithoutFirst(S, Head(items)), Tail(items))

\* T is S with some of its elements left out
IsSubsequence(T, S) ==
    \E keep \in SUBSET (1..Len(S)) :
        /\ Cardinality(keep) = Len(T)
        /\ \A k \in 1..Len(T) :
              \E i \in keep : Cardinality({j \in keep : j <= i}) = k /\ S[i] = T[k]

\* C22: removeItems(items) is removeItem's in-memory step applied for each input
\* item in input order to one working copy, saved once: each input item removes
\* the first element of the working array that compares equal to it, or nothing;
\* the saved sequence is a subsequence of the stored one, shorter by the number of
\* input items that found a match.
C22_RemoveItems ==
    [][ (last'.op = "removeItems" /\ HoldsItems(sessionStorage, wrapper.key))
        => LET S == ItemsAt(sessionStorage, wrapper.key)
               T == ItemsAt(sessionStorage', wrapper.key)
           IN  /\ last'.result.status = "void"
               /\ last'.calls = FindThenSave
               /\ sessionStorage'[REGULAR_PREFIX \o wrapper.key] =
                     SavedItems(WithoutEach(S, last'.arg.items))
               /\ IsSubsequence(T, S)
               /\ Len(T) = Len(S) - Matches(S, last'.arg.items) ]_vars

C22_Witness ==
    /\ last.op = "removeItems"
    /\ last.present
    /\ last.arg = JArr(<<Item(1, 0), Item(1, 0)>>)
    /\ last.result.status = "void"
    /\ Held(wrapper.key) = SavedItems(<<Item(2, 0)>>)

\* C23: getItemsByFilter(p) returns exactly the subsequence of the stored sequence
\* whose elements satisfy p, in stored order (the empty sequence when the key is
\* absent or nothing matches), and issues no save or remove: the store is untouched.
C23_GetItemsByFilter ==
    [][ (last'.op = "getItemsByFilter" /\ HoldsItems(sessionStorage, wrapper.key))
        => LET S      == ItemsAt(sessionStorage, wrapper.key)
               R      == last'.result.value.items
               p(i)   == \E k \in 1..Len(last'.arg.items) : last'.arg.items[k] = i
               hits   == {i \in 1..Len(S) : p(S[i])}
           IN  /\ last'.result.status = "value"
               /\ Len(R) = Cardinality(hits)
               /\ \A i \in hits : R[Cardinality({j \in hits : j <= i})] = S[i]
               /\ last'.calls = FindOnly
               /\ sessionStorage' = sessionStorage ]_vars

C23_Witness ==
    /\ last.op = "getItemsByFilter"
    /\ last.arg = JArr(<<Item(1, 0), Item(1, 1)>>)
    /\ Held(wrapper.key) = SavedItems(<<Item(1, 1), Item(2, 0), Item(1, 0)>>)
    /\ last.result = Returned(JArr(<<Item(1, 1), Item(1, 0)>>))

Occurrences(S, item) == Cardinality({i \in 1..Len(S) : S[i] = item})

\* C24: sortItems(cmp?) is read-only: it never calls the backend's save, the stored
\* sequence is the same after the call as before, and the returned sequence is a
\* permutation of the stored one ordered by cmp, or by the wrapper's constructor
\* comparator when cmp is omitted.
C24_SortItemsReadOnly ==
    [][ \A cmp \in Comparators \cup {"omitted"} :
          (last'.op = SortItemsWith(cmp) /\ HoldsItems(sessionStorage, wrapper.key))
          => LET S == ItemsAt(sessionStorage, wrapper.key)
                 R == last'.result.value.items
                 Before(a, b) == IF cmp = "compareByPayload"
                                 THEN a.items[2].n <= b.items[2].n
                                 ELSE a.items[1].n <= b.items[1].n
             IN  /\ last'.result.status = "value"
                 /\ Len(R) = Len(S)
                 /\ \A item \in Items : Occurrences(R, item) = Occurrences(S, item)
                 /\ \A i \in 1..Len(R) : \A j \in i..Len(R) : Before(R[i], R[j])
                 /\ last'.calls = FindOnly
                 /\ sessionStorage' = sessionStorage ]_vars

C24_Witness ==
    /\ last.op = SortItemsWith("omitted")
    /\ Held(wrapper.key) = SavedItems(<<Item(2, 0), Item(1, 1), Item(1, 0)>>)
    /\ last.result = Returned(JArr(<<Item(1, 1), Item(1, 0), Item(2, 0)>>))

Mutators == {"addItem", "addItems", "updateItem", "updateItems", "removeItem", "removeItems"}

Readers == {"getItemsByFilter"} \cup {SortItemsWith(cmp) : cmp \in Comparators \cup {"omitted"}}

\* C27: backend call protocol of the collection wrapper: every collection
\* operation issues exactly one backend find on its key first; with the key absent
\* or holding an array, addItem, addItems, updateItems, removeItem, removeItems and
\* a matching updateItem then issue exactly one backend save after that find, and
\* getItemsByFilter, sortItems and a non-matching updateItem issue no save; no
\* collection operation issues a backend remove.
C27_CallProtocol ==
    [][ (last'.op \in Mutators \cup Readers)
        => LET S       == ItemsAt(sessionStorage, wrapper.key)
               matches == \E i \in 1..Len(S) : SameId(S[i], last'.arg)
           IN  /\ last'.calls \in {FindOnly, FindThenSave}
               /\ HoldsItems(sessionStorage, wrapper.key)
                  => last'.calls =
                        IF \/ last'.op \in Readers
                           \/ (last'.op = "updateItem" /\ ~matches)
                        THEN FindOnly ELSE FindThenSave ]_vars

C27_Witness ==
    /\ last.op = "removeItem"
    /\ last.present
    /\ last.arg = Item(2, 0)
    /\ last.calls = FindThenSave
    /\ Held(wrapper.key) = SavedItems(<<Item(1, 0)>>)

EmptyArrayText == <<"[", "]">>

\* C30: after a collection mutator completes successfully the key is present and
\* holds the JSON text of an array: removeItem, removeItems or updateItems on a
\* never-written key writes "[]" and removing the last element leaves "[]", so
\* that a following find() returns the (empty) sequence, not undefined, and
\* retrieve() does not throw NotFound; only remove() makes the key absent again.
C30_MutatorsLeaveArray ==
    [][ /\ (last'.op \in Mutators /\ last'.result.status = "void")
           => /\ sessionStorage'[REGULAR_PREFIX \o wrapper.key].found
              /\ HoldsItems(sessionStorage', wrapper.key)
              /\ JsonFind(wrapper.key, sessionStorage').result =
                    Returned(JArr(ItemsAt(sessionStorage', wrapper.key)))
              /\ JsonRetrieve(wrapper.key, sessionStorage').result =
                    Returned(JArr(ItemsAt(sessionStorage', wrapper.key)))
        /\ ( /\ last'.op \in {"removeItem", "removeItems", "updateItems"}
             /\ HoldsItems(sessionStorage, wrapper.key)
             /\ \/ ~Held(wrapper.key).found
                \/ (last'.op = "removeItem" /\ Len(ItemsAt(sessionStorage, wrapper.key)) = 1
                    /\ SameId(ItemsAt(sessionStorage, wrapper.key)[1], last'.arg)) )
           => sessionStorage'[REGULAR_PREFIX \o wrapper.key] = Some(EmptyArrayText)
        /\ ( /\ Held(wrapper.key).found
             /\ ~sessionStorage'[REGULAR_PREFIX \o wrapper.key].found )
           => last'.op = "remove" ]_vars

C30_Witness ==
    /\ last.op = "removeItem"
    /\ last.present
    /\ last.result.status = "void"
    /\ Held(wrapper.key) = Some(EmptyArrayText)

\* C28: without concurrency there are no lost updates: from an absent key, after
\* any sequence of collection mutators each of which completes before the next
\* starts, the stored sequence is the mutators' in-memory effects applied in call
\* order to the empty sequence; after awaited addItem(x1), ..., addItem(xn) it is
\* exactly [x1, ..., xn].
C28_SequentialNoLostUpdate ==
    IF lastMut.op = "none"
    THEN ~Held(wrapper.key).found
    ELSE Held(wrapper.key) = SavedItems(lastMut.arg.items)

C28_Witness ==
    /\ last.op = "addItem"
    /\ lastMut.op = "addItem"
    /\ prevMut.op = "addItem"
    /\ last.arg = Item(1, 1)
    /\ lastMut.arg = JArr(<<Item(2, 0), Item(1, 0), Item(1, 1)>>)
    /\ Held(wrapper.key) = SavedItems(<<Item(2, 0), Item(1, 0), Item(1, 1)>>)

RegularOps == {"getFromStorage", "saveToStorage", "removeFromStorage"}
SecureOps  == {"getFromSecureStorage", "saveToSecureStorage", "removeFromSecureStorage"}

\* the one session-store entry a call of the web backend may touch
EntryOf(op, key) == IF op \in RegularOps THEN "regular_" \o key ELSE "secure_" \o key

\* C26: web backend partition isolation: a regular operation on key k reads and
\* writes only the session-store entry 'regular_'+k and a secure one only
\* 'secure_'+k, so no save or remove in one partition changes what a find in the
\* other partition returns for any key, and a value saved under k in one partition
\* is not found under k in the other.
C26_PartitionIsolation ==
    [][ LET op    == last'.op
            entry == EntryOf(op, last'.key)
        IN  /\ \A sk \in WebStorageKeys :
                  sk # entry => sessionStorage'[sk] = sessionStorage[sk]
            /\ op \in RegularOps =>
                  \A k \in WebKeys : getFromSecureStorage(sessionStorage', k)
                                       = getFromSecureStorage(sessionStorage, k)
            /\ op \in SecureOps =>
                  \A k \in WebKeys : getFromStorage(sessionStorage', k)
                                       = getFromStorage(sessionStorage, k)
            /\ op \in {"getFromStorage", "getFromSecureStorage"} =>
                  /\ sessionStorage' = sessionStorage
                  /\ last'.result = WebFound(sessionStorage[entry])
            /\ op \in {"saveToStorage", "saveToSecureStorage"} =>
                  sessionStorage'[entry] = Some(last'.arg)
            /\ op \in {"removeFromStorage", "removeFromSecureStorage"} =>
                  sessionStorage'[entry] = None
      ]_vars

C26_Witness ==
    /\ last.op = "getFromSecureStorage"
    /\ last.key = "k1"
    /\ last.result.status = "undefined"
    /\ sessionStorage["regular_k1"] = Some(<<"a">>)
    /\ sessionStorage["regular_secure_k1"] = Some(<<"0">>)
    /\ sessionStorage["secure_regular_k1"] = Some(<<"0">>)

\* c and d are both completed addItem calls on one key, and c saved while d was
\* waiting between its find and its save: both finds came before either save
BothFoundBeforeEitherSave(c, d) ==
    /\ c # d
    /\ inFlight[c].op = "addItem" /\ inFlight[d].op = "addItem"
    /\ inFlight[c].key = inFlight[d].key
    /\ inFlight[c].pc = "done" /\ inFlight[d].pc = "done"
    /\ inFlight[c].overlap

\* the array a call read at its find
FoundItems(call) == IF call.found.status = "undefined" THEN <<>> ELSE call.found.value.items

\* C25: collection mutators are not serialized: when the backend finds of two
\* concurrent addItem(a) and addItem(b) on one key both complete before either
\* backend save, both calls succeed and no error is reported, and the key then
\* holds what the later saver read followed by the later saver's item only; the
\* earlier saver's item is lost.  Run one at a time, the same two halves are addItem.
C25_LostUpdate ==
    /\ \A c, d \in Slots :
          BothFoundBeforeEitherSave(c, d) =>
              LET key == inFlight[d].key
                  a   == inFlight[c].arg
                  b   == inFlight[d].arg
                  S   == FoundItems(inFlight[d])
              IN  /\ inFlight[c].result.status = "void"
                  /\ inFlight[d].result.status = "void"
                  /\ Held(key) = SavedItems(Append(S, b))
                  /\ (a # b /\ \A i \in 1..Len(S) : S[i] # a) =>
                        \A i \in 1..Len(ItemsAt(sessionStorage, key)) :
                            ItemsAt(sessionStorage, key)[i] # a
    /\ \A key \in Keys, item \in RaceItems, op \in {"addItem", "removeItem"} :
          LET whole  == IF op = "addItem" THEN addItem(key, sessionStorage, item)
                        ELSE removeItem(key, sessionStorage, item)
              halves == mutatorSave(op, key, sessionStorage,
                                    mutatorFind(key, sessionStorage), item)
          IN  halves.result = whole.result /\ halves.store = whole.store

C25_Witness ==
    /\ BothFoundBeforeEitherSave(1, 2)
    /\ inFlight[1].arg = Item(1, 0)
    /\ inFlight[2].arg = Item(2, 0)
    /\ inFlight[1].found = Returned(JArr(<<Item(2, 0)>>))
    /\ inFlight[2].found = Returned(JArr(<<Item(2, 0)>>))
    /\ inFlight[1].result.status = "void"
    /\ inFlight[2].result.status = "void"
    /\ Held("k1") = SavedItems(<<Item(2, 0), Item(2, 0)>>)

\* the store as it would be had only the operations on key run
OnlyKey(store, key) ==
    [sk \in DOMAIN store |-> IF sk = REGULAR_PREFIX \o key THEN store[sk] ELSE None]

\* caller c took a step
Moved(c) ==
    /\ inFlight'[c] # inFlight[c]
    /\ \/ inFlight'[c].pc = "found"
       \/ inFlight[c].pc = "found"
       \/ inFlight'[c].op = "remove"

\* C29: key isolation under interleaving: every backend call of a wrapper uses the
\* key given at construction, so each step of a call on key k, whatever calls on
\* other keys came before it or wait around it, changes only k's entry and reads,
\* returns and stores what it would had only the operations on k run; the other
\* caller's waiting call keeps what it read.
C29_KeyIsolation ==
    [][ \A c \in Slots :
          Moved(c) =>
            LET call  == inFlight'[c]
                key   == call.key
                alone == OnlyKey(sessionStorage, key)
                find  == JsonFind(key, alone)
                save  == mutatorSave(call.op, key, alone, inFlight[c].found, call.arg)
                del   == JsonRemove(key, alone)
            IN  /\ \A k \in Keys \ {key} : sessionStorage'[REGULAR_PREFIX \o k] = Held(k)
                /\ \A sk \in StorageKeys \ {REGULAR_PREFIX \o k : k \in Keys} :
                      sessionStorage'[sk] = sessionStorage[sk]
                /\ \A o \in Slots \ {c} :
                      inFlight'[o] = inFlight[o]
                         \/ inFlight'[o] = [inFlight[o] EXCEPT !.overlap = FALSE]
                /\ call.pc = "found" =>
                      /\ call.found = find.result
                      /\ sessionStorage'[REGULAR_PREFIX \o key] = Held(key)
                      /\ \A i \in 1..Len(find.calls) : find.calls[i].key = key
                /\ (call.pc = "done" /\ call.op # "remove") =>
                      /\ call.result = save.result
                      /\ sessionStorage'[REGULAR_PREFIX \o key] = save.store[REGULAR_PREFIX \o key]
                      /\ \A i \in 1..Len(save.calls) : save.calls[i].key = key
                /\ call.op = "remove" =>
                      /\ call.result = del.result
                      /\ sessionStorage'[REGULAR_PREFIX \o key] = del.store[REGULAR_PREFIX \o key]
                      /\ \A i \in 1..Len(del.calls) : del.calls[i].key = key
      ]_vars

C29_Witness ==
    /\ inFlight[1].op = "addItem" /\ inFlight[1].key = "k1" /\ inFlight[1].pc = "done"
    /\ inFlight[1].arg = Item(1, 0)
    /\ inFlight[2].op = "addItem" /\ inFlight[2].key = "k2" /\ inFlight[2].pc = "done"
    /\ inFlight[2].arg = Item(2, 0)
    /\ inFlight[2].overlap = FALSE /\ inFlight[1].overlap = FALSE
    /\ inFlight[1].found.status = "undefined"
    /\ inFlight[2].found = Returned(JArr(<<Item(1, 0)>>))
    /\ Held("k1") = SavedItems(<<Item(1, 0)>>)
    /\ Held("k2") = SavedItems(<<Item(1, 0), Item(2, 0)>>)

====
